---- MODULE Spec2Model ----
(***************************************************************************)
(* CallFlow backend (src/index.js): the call-session state machine kept in *)
(* Redis by the three webhook handlers /incoming-call, /process-speech and *)
(* /call-ended.  Every handler is an async function: it is modelled as a   *)
(* request whose steps are the stretches of code between two awaited store *)
(* or provider calls.  Time is Date.now() in milliseconds.                 *)
(***************************************************************************)
EXTENDS Integers, Sequences, FiniteSets, TLC

VARIABLES
    now,        \* Date.now(), milliseconds since the epoch
    sessions,   \* Redis: sessionKey(tid, sid) -> <<>> or <<[val, expireAt]>>
    logs,       \* Redis: logKey(tid, sid)     -> <<>> or <<CallLog>>
    analytics,  \* Redis: analyticsKey(tid) hash, by <<tid, day>> and field
    reqs,       \* the webhook invocations in flight, one per slot
    nReq,       \* webhook invocations received so far
    maxCallTurns, \* Number(process.env.MAX_CALL_TURNS || 20), fixed at start
    finalized   \* history: the keys whose last finalization ran to completion
                \* with no initiation event since

vars == <<now, sessions, logs, analytics, reqs, nReq, maxCallTurns, finalized>>

----------------------------------------------------------------------------
(* Bounds of the model *)

\* webhook invocations explored in one behaviour
MaxRequests == 4

\* request slots (concurrent invocations the model can hold)
Slots == {1, 2}

----------------------------------------------------------------------------
(* Program constants *)

\* the values of process.env.MAX_CALL_TURNS the process may be started with
MaxCallTurnsEnv == {1, 2}
\* Number(process.env.MAX_CALL_DURATION_SEC || 900): the default
MaxCallDurationSec == 900
\* redis.set(..., "EX", 3600)
SessionTtlSec == 3600
\* Date.now() is in milliseconds; the handlers divide by 1000
MsPerSec == 1000
\* toISOString().slice(0, 10) is the UTC calendar day
MsPerDay == 86400000

----------------------------------------------------------------------------
(* Optional values: null / a missing key is <<>>, a present value v is <<v>> *)

Null == <<>>
Some(v) == <<v>>
IsNull(o) == o = <<>>
The(o) == o[1]

----------------------------------------------------------------------------
(* Text.  A string is known to the model with its characters, so that      *)
(* toLowerCase, includes and trim are computed character by character.     *)

Chars(s) ==
    CASE s = ""            -> <<>>
      [] s = "hours"       -> <<"h","o","u","r","s">>
      [] s = "A HUMAN"     -> <<"A"," ","H","U","M","A","N">>
      [] s = "Operator"    -> <<"O","p","e","r","a","t","o","r">>
      [] s = "my agent"    -> <<"m","y"," ","a","g","e","n","t">>
      [] s = "PERSON"      -> <<"P","E","R","S","O","N">>
      [] s = "human"       -> <<"h","u","m","a","n">>
      [] s = "agent"       -> <<"a","g","e","n","t">>
      [] s = "person"      -> <<"p","e","r","s","o","n">>
      [] s = "operator"    -> <<"o","p","e","r","a","t","o","r">>
      [] s = "sales"       -> <<"s","a","l","e","s">>
      [] s = " info\n"     -> <<" ","i","n","f","o","\n">>
      [] s = "info"        -> <<"i","n","f","o">>
      [] s = "  "          -> <<" "," ">>

Text ==
    {"", "hours", "A HUMAN", "Operator", "my agent", "PERSON", "human", "agent",
     "person", "operator", "sales", " info\n", "info", "  "}

\* the string with these characters
Str(cs) == CHOOSE s \in Text : Chars(s) = cs

\* String.prototype.toLowerCase, one character
LowerChar(c) ==
    CASE c = "A" -> "a" [] c = "E" -> "e" [] c = "H" -> "h" [] c = "M" -> "m"
      [] c = "N" -> "n" [] c = "O" -> "o" [] c = "P" -> "p" [] c = "R" -> "r"
      [] c = "S" -> "s" [] c = "U" -> "u"
      [] OTHER -> c

ToLowerCase(cs) == [i \in 1..Len(cs) |-> LowerChar(cs[i])]

\* String.prototype.includes: k occurs in cs as a contiguous substring
Includes(cs, k) ==
    \E i \in 0..(Len(cs) - Len(k)) : \A j \in 1..Len(k) : cs[i + j] = k[j]

IsWhiteSpace(c) == c \in {" ", "\n", "\t"}

\* String.prototype.trim: the leading and trailing white space is removed
Trim(cs) ==
    LET idx == {i \in 1..Len(cs) : ~IsWhiteSpace(cs[i])}
    IN  IF idx = {} THEN <<>>
        ELSE LET lo == CHOOSE i \in idx : \A j \in idx : i <= j
                 hi == CHOOSE i \in idx : \A j \in idx : j <= i
             IN  SubSeq(cs, lo, hi)

----------------------------------------------------------------------------
(* The inputs of the webhooks and the answers of the providers *)

\* req.body.To
Tenants == {"t1", "t2"}
\* req.body.CallSid
CallSids == {"c1"}
\* req.body.From
Callers == {"+100"}
\* req.body.SpeechResult || ""
Utterances == {"", "hours", "A HUMAN", "Operator"}
\* intentCheck.choices[0].message.content, before trim()
RawIntents == {"sales", " info\n", "  "}
\* completion.choices[0].message.content
Replies == {"reply"}

\* the instants Date.now() is sampled at: either side of a UTC midnight, of
\* the call-duration limit and of the session's time-to-live
Midnight == MsPerDay
TimePoints ==
    {Midnight - 1,
     Midnight - 1 + MaxCallDurationSec * MsPerSec,
     Midnight + MaxCallDurationSec * MsPerSec,
     Midnight - 1 + SessionTtlSec * MsPerSec}

\* an identifier the payload lacks is undefined, "undefined" in a template
Missing == "undefined"
AllTenants == Tenants \cup {Missing}
AllCallSids == CallSids \cup {Missing}

----------------------------------------------------------------------------
(* Redis key helpers and tenant configuration *)

\* new Date().toISOString().slice(0, 10): the UTC day of instant t
DayOf(t) == t \div MsPerDay
Days == {DayOf(t) : t \in TimePoints}

\* the first ten characters of toISOString()
IsoDate(t) ==
    CASE DayOf(t) = 0 -> "1970-01-01"
      [] DayOf(t) = 1 -> "1970-01-02"

\* variant of sessionKey: the key of the single-tenant store
sessionKeyNoTenant(tid, sid) == "call:session:" \o sid

sessionKey(tid, sid) == "tenant:" \o tid \o ":call:session:" \o sid
logKey(tid, sid) == "tenant:" \o tid \o ":call:log:" \o sid

\* analyticsKey(tid), evaluated at instant t
analyticsKey(tid, t) == "tenant:" \o tid \o ":analytics:daily:" \o IsoDate(t)

\* the keys of the store the handlers can name
Keys == {sessionKey(tid, sid) : tid \in AllTenants, sid \in AllCallSids}
LogKeys == {logKey(tid, sid) : tid \in AllTenants, sid \in AllCallSids}
CounterKeys == {analyticsKey(tid, t) : tid \in AllTenants, t \in TimePoints}

ResolvedValues == {"AI", "HUMAN", "LIMIT", "TIME_LIMIT"}
resolvedField(rb) == "resolved_" \o rb
Fields == {"total_calls"} \cup {resolvedField(rb) : rb \in ResolvedValues}

\* the tenant configurations stored under tenantKey(tid): t2 has one, t1 none
StoredConfig(tid) ==
    IF tid = "t2"
    THEN Some([businessName |-> "Acme", businessHours |-> "9 to 5",
               humanAgent |-> "+222", aiStyle |-> "brisk",
               enableHumanTransfer |-> FALSE])
    ELSE Null

getTenantConfig(tid) ==
    LET data == StoredConfig(tid)
    IN  IF ~IsNull(data) THEN The(data)
        ELSE [businessName |-> "CallFlow Client",
              businessHours |-> "10 AM to 6 PM",
              humanAgent |-> "HUMAN_AGENT_NUMBER",
              aiStyle |-> "polite and professional",
              enableHumanTransfer |-> TRUE]

----------------------------------------------------------------------------
(* The Redis store *)

\* variant of redisGet: the time-to-live is not applied
redisGetNoExpiry(k) ==
    IF ~IsNull(sessions[k]) THEN Some(The(sessions[k]).val) ELSE Null

\* redis.get(sessionKey(tid, sid)): a key past its time-to-live is gone.
\* The session holds strings, numbers, null and arrays of them only, which
\* JSON.stringify and JSON.parse give back unchanged.
redisGet(k) ==
    IF ~IsNull(sessions[k]) /\ now < The(sessions[k]).expireAt
    THEN Some(The(sessions[k]).val)
    ELSE Null

\* redis.set(sessionKey(tid, sid), JSON.stringify(session), "EX", 3600)
redisSetEx(k, session) ==
    [sessions EXCEPT
        ![k] = Some([val |-> session,
                     expireAt |-> now + SessionTtlSec * MsPerSec])]

\* variant of redisDel: the key is left in place
redisDelNothing(k) == sessions

\* redis.del(sessionKey(tid, sid))
redisDel(k) == [sessions EXCEPT ![k] = Null]

\* variant of redisHincrby: total_calls is incremented whatever the field
redisHincrbyTotal(tid, field) ==
    [analytics EXCEPT ![analyticsKey(tid, now)].total_calls = @ + 1]

\* redis.hincrby(analyticsKey(tid), field, 1), the key evaluated at now
redisHincrby(tid, field) ==
    [analytics EXCEPT ![analyticsKey(tid, now)][field] = @ + 1]

----------------------------------------------------------------------------
(* Sessions *)

\* the system prompt built from the tenant's configuration
SystemPrompt(tenant) ==
    <<"You are an AI receptionist for", tenant.businessName,
      "Style:", tenant.aiStyle, "Business hours:", tenant.businessHours>>

Message(role, content) == [role |-> role, content |-> content]

\* variant of NewSession: the session starts as resolved by a human
NewSessionResolvedByHuman(callSid, tenantId, from, tenant, t) ==
    [callSid    |-> callSid,
     tenantId   |-> tenantId,
     from       |-> from,
     intent     |-> Null,
     startTime  |-> t,
     resolvedBy |-> "HUMAN",
     messages   |-> <<Message("system", SystemPrompt(tenant))>>]

\* the session object /incoming-call builds
NewSession(callSid, tenantId, from, tenant, t) ==
    [callSid    |-> callSid,
     tenantId   |-> tenantId,
     from       |-> from,
     intent     |-> Null,
     startTime  |-> t,
     resolvedBy |-> "AI",
     messages   |-> <<Message("system", SystemPrompt(tenant))>>]

\* variant of PushMessage: unshift for push
UnshiftMessage(session, role, content) ==
    [session EXCEPT !.messages = <<Message(role, content)>> \o @]

\* session.messages.push({ role, content })
PushMessage(session, role, content) ==
    [session EXCEPT !.messages = Append(@, Message(role, content))]

\* session.messages.length / 2 > MAX_CALL_TURNS, a division of reals:
\* length / 2 > n exactly when length > 2 * n
TurnLimitReached(session) == Len(session.messages) > 2 * maxCallTurns

\* variant of TimeLimitReached: >= for >
TimeLimitReachedAtLimit(session, t) ==
    t - session.startTime >= MaxCallDurationSec * MsPerSec

\* (Date.now() - session.startTime) / 1000 > MAX_CALL_DURATION_SEC, reals
TimeLimitReached(session, t) ==
    t - session.startTime > MaxCallDurationSec * MsPerSec

TransferKeywords == {"human", "agent", "person", "operator"}

\* variant of WantsHuman: the utterance is not lowercased
WantsHumanCaseSensitive(tenant, userSpeech) ==
    /\ tenant.enableHumanTransfer
    /\ \E k \in TransferKeywords : Includes(Chars(userSpeech), Chars(k))

\* tenant.enableHumanTransfer && [...].some((k) => lower.includes(k))
WantsHuman(tenant, userSpeech) ==
    LET lower == ToLowerCase(Chars(userSpeech))
    IN  /\ tenant.enableHumanTransfer
        /\ \E k \in TransferKeywords : Includes(lower, Chars(k))

\* !session.intent: null and the empty string are both falsy
IntentMissing(session) ==
    IsNull(session.intent) \/ session.intent = Some("")

\* intentCheck.choices[0].message.content.trim()
ClassifiedIntent(raw) == Str(Trim(Chars(raw)))

\* Math.floor((Date.now() - session.startTime) / 1000)
DurationSec(session, t) == (t - session.startTime) \div MsPerSec

\* { ...session, durationSec, endedAt }
CallLog(session, t) ==
    [session |-> session, durationSec |-> DurationSec(session, t), endedAt |-> t]

----------------------------------------------------------------------------
(* Responses to the call-control layer *)

Response(type, arg) == [type |-> type, arg |-> arg]
PlayThenGather(audio) == Response("PlayThenGather", audio)
SayAndEnd(text) == Response("SayAndEnd", text)
TransferToHuman(address) == Response("TransferToHuman", address)
AckOnly == Response("AckOnly", "200")
\* the 500 page of the framework's default error handler
ServerError == Response("ServerError", "500")

----------------------------------------------------------------------------
(* Requests: one webhook invocation each *)

IdleReq ==
    [kind |-> "none", pc |-> "idle", tid |-> "", sid |-> "", from |-> "",
     speech |-> "", found |-> Null, session |-> Null, resp |-> Null,
     lmCalls |-> 0,
     log |-> Null, t0 |-> 0, pre |-> Null, failed |-> ""]

\* the store as the invocation found it
Snapshot ==
    [sessions |-> sessions, logs |-> logs, analytics |-> analytics,
     finalized |-> finalized]

NewReq(kind, tid, sid, from, speech) ==
    [IdleReq EXCEPT !.kind = kind, !.tid = tid, !.sid = sid, !.from = from,
                    !.speech = speech, !.t0 = now, !.pre = Some(Snapshot)]

\* no invocation runs in the slot: none yet, or one that has answered, or one
\* whose promise has rejected
Free(r) == reqs[r].pc \in {"idle", "done", "failed"}

\* the call-control layer delivers the events of a call one after the other
Arrives(r) ==
    /\ r = 1
    /\ \A q \in Slots : Free(q)
    /\ nReq < MaxRequests

Respond(req, resp) == [req EXCEPT !.pc = "done", !.resp = Some(resp)]

Init ==
    /\ now = Midnight - 1
    /\ sessions = [k \in Keys |-> Null]
    /\ logs = [k \in LogKeys |-> Null]
    /\ analytics = [a \in CounterKeys |-> [f \in Fields |-> 0]]
    /\ reqs = [r \in Slots |-> IdleReq]
    /\ nReq = 0
    /\ maxCallTurns \in MaxCallTurnsEnv
    /\ finalized = {}

\* time passes between two webhook invocations
Tick ==
    /\ \A q \in Slots : Free(q)
    /\ \E t \in TimePoints : t > now /\ now' = t
    /\ UNCHANGED <<sessions, logs, analytics, reqs, nReq, maxCallTurns, finalized>>

----------------------------------------------------------------------------
(* POST /incoming-call *)

\* the handler starts on a payload: the tenant is read and the session
\* object is built
IncomingCallOn(r, tid, sid, from) ==
    /\ reqs' = [reqs EXCEPT ![r] =
          [NewReq("incoming", tid, sid, from, "") EXCEPT
              !.pc = "set",
              !.session = Some(NewSession(sid, tid, from,
                                          getTenantConfig(tid), now))]]
    /\ nReq' = nReq + 1
    /\ finalized' = finalized \ {sessionKey(tid, sid)}
    /\ UNCHANGED <<now, sessions, logs, analytics, maxCallTurns>>

\* the request arrives
IncomingCall(r) ==
    \E tid \in Tenants, sid \in CallSids, from \in Callers :
        Arrives(r) /\ IncomingCallOn(r, tid, sid, from)

\* await redis.set(sessionKey(tenantId, callSid), ..., "EX", 3600)
IncomingSet(r) ==
    /\ reqs[r].kind = "incoming" /\ reqs[r].pc = "set"
    /\ sessions' = redisSetEx(sessionKey(reqs[r].tid, reqs[r].sid), The(reqs[r].session))
    /\ reqs' = [reqs EXCEPT ![r].pc = "welcome"]
    /\ UNCHANGED <<now, logs, analytics, nReq, maxCallTurns, finalized>>

\* await generateSpeech(welcomeText, audioFile); res.send(<Play/><Gather/>)
IncomingWelcome(r) ==
    /\ reqs[r].kind = "incoming" /\ reqs[r].pc = "welcome"
    /\ reqs' = [reqs EXCEPT ![r] = Respond(@, PlayThenGather("welcome"))]
    /\ UNCHANGED <<now, sessions, logs, analytics, nReq, maxCallTurns, finalized>>

----------------------------------------------------------------------------
(* POST /process-speech *)

\* the request arrives and the session is read; then, with no await between
\* them but that of the tenant's configuration: the two limits, the push of
\* the user's message and the human-transfer test
ProcessSpeechOn(r, tid, sid, userSpeech) ==
    LET got == redisGet(sessionKey(tid, sid))
        req == [NewReq("speech", tid, sid, "", userSpeech) EXCEPT !.found = got]
        session == The(got)
        tenant == getTenantConfig(tid)
        pushed == PushMessage(session, "user", userSpeech)
    IN  /\ reqs' = [reqs EXCEPT ![r] =
              IF IsNull(got) THEN Respond(req, AckOnly)
              ELSE IF TurnLimitReached(session)
              THEN [req EXCEPT !.pc = "setLimit",
                      !.session = Some([session EXCEPT !.resolvedBy = "LIMIT"])]
              ELSE IF TimeLimitReached(session, now)
              THEN [req EXCEPT !.pc = "setTimeLimit",
                      !.session = Some([session EXCEPT !.resolvedBy = "TIME_LIMIT"])]
              ELSE IF WantsHuman(tenant, userSpeech)
              THEN [req EXCEPT !.pc = "setHuman",
                      !.session = Some([pushed EXCEPT !.resolvedBy = "HUMAN"])]
              ELSE [req EXCEPT
                      !.pc = IF IntentMissing(pushed) THEN "classify" ELSE "reply",
                      !.session = Some(pushed)]]
        /\ nReq' = nReq + 1
        /\ UNCHANGED <<now, sessions, logs, analytics, maxCallTurns, finalized>>

\* the request arrives
ProcessSpeech(r) ==
    \E tid \in Tenants, sid \in CallSids, userSpeech \in Utterances :
        Arrives(r) /\ ProcessSpeechOn(r, tid, sid, userSpeech)

\* the answer of each early exit
EarlyResponse(pc, tenant) ==
    CASE pc = "setLimit"     -> SayAndEnd("maximum length")
      [] pc = "setTimeLimit" -> SayAndEnd("timed out")
      [] pc = "setHuman"     -> TransferToHuman(tenant.humanAgent)

\* await redis.set(...) of an early exit, and its answer
ProcessSpeechClose(r) ==
    /\ reqs[r].kind = "speech"
    /\ reqs[r].pc \in {"setLimit", "setTimeLimit", "setHuman"}
    /\ sessions' = redisSetEx(sessionKey(reqs[r].tid, reqs[r].sid), The(reqs[r].session))
    /\ reqs' = [reqs EXCEPT ![r] =
          Respond(@, EarlyResponse(reqs[r].pc, getTenantConfig(reqs[r].tid)))]
    /\ UNCHANGED <<now, logs, analytics, nReq, maxCallTurns, finalized>>

\* await openai.chat.completions.create(...): intent detection
ProcessSpeechClassify(r) ==
    \E raw \in RawIntents :
        /\ reqs[r].kind = "speech" /\ reqs[r].pc = "classify"
        /\ reqs' = [reqs EXCEPT ![r] =
              [@ EXCEPT !.pc = "reply",
                        !.lmCalls = @ + 1,
                        !.session = Some([The(@) EXCEPT
                                            !.intent = Some(ClassifiedIntent(raw))])]]
        /\ UNCHANGED <<now, sessions, logs, analytics, nReq, maxCallTurns, finalized>>

\* await openai.chat.completions.create(...): the reply, pushed as assistant
ProcessSpeechReply(r) ==
    \E reply \in Replies :
        /\ reqs[r].kind = "speech" /\ reqs[r].pc = "reply"
        /\ reqs' = [reqs EXCEPT ![r] =
              [@ EXCEPT !.pc = "save",
                        !.lmCalls = @ + 1,
                        !.session = Some(PushMessage(The(@), "assistant", reply))]]
        /\ UNCHANGED <<now, sessions, logs, analytics, nReq, maxCallTurns, finalized>>

\* await redis.set(...) of the turn
ProcessSpeechSave(r) ==
    /\ reqs[r].kind = "speech" /\ reqs[r].pc = "save"
    /\ sessions' = redisSetEx(sessionKey(reqs[r].tid, reqs[r].sid), The(reqs[r].session))
    /\ reqs' = [reqs EXCEPT ![r].pc = "speak"]
    /\ UNCHANGED <<now, logs, analytics, nReq, maxCallTurns, finalized>>

\* await generateSpeech(reply, audioFile); res.send(<Play/><Gather/>)
ProcessSpeechSpeak(r) ==
    /\ reqs[r].kind = "speech" /\ reqs[r].pc = "speak"
    /\ reqs' = [reqs EXCEPT ![r] = Respond(@, PlayThenGather("reply"))]
    /\ UNCHANGED <<now, sessions, logs, analytics, nReq, maxCallTurns, finalized>>

----------------------------------------------------------------------------
(* POST /call-ended *)

\* the request arrives and the session is read; the log record is built
CallEndedOn(r, tid, sid) ==
    LET got == redisGet(sessionKey(tid, sid))
        req == [NewReq("ended", tid, sid, "", "") EXCEPT !.found = got]
    IN  /\ reqs' = [reqs EXCEPT ![r] =
              IF IsNull(got) THEN Respond(req, AckOnly)
              ELSE [req EXCEPT !.pc = "log",
                               !.session = got,
                               !.log = Some(CallLog(The(got), now))]]
        /\ nReq' = nReq + 1
        /\ UNCHANGED <<now, sessions, logs, analytics, maxCallTurns, finalized>>

\* the request arrives
CallEnded(r) ==
    \E tid \in Tenants, sid \in CallSids :
        Arrives(r) /\ CallEndedOn(r, tid, sid)

\* await redis.set(logKey(tenantId, callSid), ...)
CallEndedLog(r) ==
    /\ reqs[r].kind = "ended" /\ reqs[r].pc = "log"
    /\ logs' = [logs EXCEPT ![logKey(reqs[r].tid, reqs[r].sid)] = reqs[r].log]
    /\ reqs' = [reqs EXCEPT ![r].pc = "total"]
    /\ UNCHANGED <<now, sessions, analytics, nReq, maxCallTurns, finalized>>

\* await redis.hincrby(analyticsKey(tenantId), "total_calls", 1)
CallEndedTotal(r) ==
    /\ reqs[r].kind = "ended" /\ reqs[r].pc = "total"
    /\ analytics' = redisHincrby(reqs[r].tid, "total_calls")
    /\ reqs' = [reqs EXCEPT ![r].pc = "resolved"]
    /\ UNCHANGED <<now, sessions, logs, nReq, maxCallTurns, finalized>>

\* await redis.hincrby(analyticsKey(tenantId), `resolved_${resolvedBy}`, 1)
CallEndedResolved(r) ==
    /\ reqs[r].kind = "ended" /\ reqs[r].pc = "resolved"
    /\ analytics' = redisHincrby(reqs[r].tid,
                                 resolvedField(The(reqs[r].session).resolvedBy))
    /\ reqs' = [reqs EXCEPT ![r].pc = "del"]
    /\ UNCHANGED <<now, sessions, logs, nReq, maxCallTurns, finalized>>

\* await redis.del(sessionKey(tenantId, callSid)); res.sendStatus(200)
CallEndedDel(r) ==
    /\ reqs[r].kind = "ended" /\ reqs[r].pc = "del"
    /\ sessions' = redisDel(sessionKey(reqs[r].tid, reqs[r].sid))
    /\ reqs' = [reqs EXCEPT ![r] = Respond(@, AckOnly)]
    /\ finalized' = finalized \cup {sessionKey(reqs[r].tid, reqs[r].sid)}
    /\ UNCHANGED <<now, logs, analytics, nReq, maxCallTurns>>

----------------------------------------------------------------------------

Next ==
    \/ Tick
    \/ \E r \in Slots :
        \/ IncomingCall(r)
        \/ IncomingSet(r)
        \/ IncomingWelcome(r)
        \/ ProcessSpeech(r)
        \/ ProcessSpeechClose(r)
        \/ ProcessSpeechClassify(r)
        \/ ProcessSpeechReply(r)
        \/ ProcessSpeechSave(r)
        \/ ProcessSpeechSpeak(r)
        \/ CallEnded(r)
        \/ CallEndedLog(r)
        \/ CallEndedTotal(r)
        \/ CallEndedResolved(r)
        \/ CallEndedDel(r)

Spec == Init /\ [][Next]_vars

----------------------------------------------------------------------------
(* Failures: an awaited call rejects, a payload lacks an identifier.      *)
(* No handler has a try/catch, so a rejection ends the handler where it   *)
(* is; the request is then left unanswered, or answered by the            *)
(* framework's error handler, as the installed express decides.           *)

MaxFaultyRequests == 3

ArrivesFaulty(r) ==
    /\ r = 1
    /\ \A q \in Slots : Free(q)
    /\ nReq < MaxFaultyRequests

Rejections == {Null, Some(ServerError)}

\* the handler's promise rejects at the named step
Rejected(req, step) ==
    {[req EXCEPT !.pc = "failed", !.failed = step, !.resp = resp] :
        resp \in Rejections}

\* any payload, with or without its identifiers
IncomingCallAny(r) ==
    \E tid \in AllTenants, sid \in AllCallSids, from \in Callers :
        ArrivesFaulty(r) /\ IncomingCallOn(r, tid, sid, from)

ProcessSpeechAny(r) ==
    \E tid \in AllTenants, sid \in AllCallSids, userSpeech \in Utterances :
        ArrivesFaulty(r) /\ ProcessSpeechOn(r, tid, sid, userSpeech)

CallEndedAny(r) ==
    \E tid \in AllTenants, sid \in AllCallSids :
        ArrivesFaulty(r) /\ CallEndedOn(r, tid, sid)

\* the first await of a handler rejects: getTenantConfig of /incoming-call,
\* redis.get of /process-speech and of /call-ended
FirstAwaitRejects(r) ==
    \E kind \in {"incoming", "speech", "ended"},
       tid \in AllTenants, sid \in AllCallSids :
        /\ ArrivesFaulty(r)
        /\ \E req \in Rejected(NewReq(kind, tid, sid, "", ""), "first") :
              reqs' = [reqs EXCEPT ![r] = req]
        /\ nReq' = nReq + 1
        /\ UNCHANGED <<now, sessions, logs, analytics, maxCallTurns, finalized>>

\* a later await rejects: redis.set, redis.hincrby, redis.del,
\* openai.chat.completions.create, or the fetch of generateSpeech
AwaitRejects(r) ==
    /\ ~Free(r)
    /\ \E req \in Rejected(reqs[r], reqs[r].pc) :
          reqs' = [reqs EXCEPT ![r] = req]
    /\ UNCHANGED <<now, sessions, logs, analytics, nReq, maxCallTurns, finalized>>

\* the speech endpoint answers with an error status: fetch resolves,
\* generateSpeech writes the error body as the audio file and the handler
\* answers as if the audio were there
SpeechRefused(r) ==
    /\ reqs[r].pc \in {"welcome", "speak"}
    /\ reqs' = [reqs EXCEPT ![r] =
          [Respond(@, PlayThenGather(IF reqs[r].pc = "welcome"
                                     THEN "welcome" ELSE "reply"))
              EXCEPT !.failed = reqs[r].pc]]
    /\ UNCHANGED <<now, sessions, logs, analytics, nReq, maxCallTurns, finalized>>

NextFaulty ==
    \/ Tick
    \/ \E r \in Slots :
        \/ IncomingCallAny(r)
        \/ IncomingSet(r)
        \/ IncomingWelcome(r)
        \/ ProcessSpeechAny(r)
        \/ ProcessSpeechClose(r)
        \/ ProcessSpeechClassify(r)
        \/ ProcessSpeechReply(r)
        \/ ProcessSpeechSave(r)
        \/ ProcessSpeechSpeak(r)
        \/ CallEndedAny(r)
        \/ CallEndedLog(r)
        \/ CallEndedTotal(r)
        \/ CallEndedResolved(r)
        \/ CallEndedDel(r)
        \/ FirstAwaitRejects(r)
        \/ AwaitRejects(r)
        \/ SpeechRefused(r)

SpecFaulty == Init /\ [][NextFaulty]_vars

----------------------------------------------------------------------------
(* Concurrency: the server takes a webhook while another is at an await,  *)
(* and the clock runs during an invocation.                               *)

MaxConcurrentRequests == 3

\* a request is taken while others are in flight
ArrivesAnyTime(r) ==
    /\ Free(r)
    /\ \A q \in Slots : q < r => ~Free(q)
    /\ nReq < MaxConcurrentRequests

IncomingCallAnyTime(r) ==
    \E tid \in Tenants, sid \in CallSids, from \in Callers :
        ArrivesAnyTime(r) /\ IncomingCallOn(r, tid, sid, from)

ProcessSpeechAnyTime(r) ==
    \E tid \in Tenants, sid \in CallSids, userSpeech \in Utterances :
        ArrivesAnyTime(r) /\ ProcessSpeechOn(r, tid, sid, userSpeech)

CallEndedAnyTime(r) ==
    \E tid \in Tenants, sid \in CallSids :
        ArrivesAnyTime(r) /\ CallEndedOn(r, tid, sid)

\* time passes, also while a handler waits at an await
TickAnyTime ==
    /\ \E t \in TimePoints : t > now /\ now' = t
    /\ UNCHANGED <<sessions, logs, analytics, reqs, nReq, maxCallTurns, finalized>>

NextConcurrent ==
    \/ TickAnyTime
    \/ \E r \in Slots :
        \/ IncomingCallAnyTime(r)
        \/ IncomingSet(r)
        \/ IncomingWelcome(r)
        \/ ProcessSpeechAnyTime(r)
        \/ ProcessSpeechClose(r)
        \/ ProcessSpeechClassify(r)
        \/ ProcessSpeechReply(r)
        \/ ProcessSpeechSave(r)
        \/ ProcessSpeechSpeak(r)
        \/ CallEndedAnyTime(r)
        \/ CallEndedLog(r)
        \/ CallEndedTotal(r)
        \/ CallEndedResolved(r)
        \/ CallEndedDel(r)

SpecConcurrent == Init /\ [][NextConcurrent]_vars

----------------------------------------------------------------------------
(* Vocabulary of the properties *)

KeyOf(r) == sessionKey(reqs[r].tid, reqs[r].sid)
LogKeyOf(r) == logKey(reqs[r].tid, reqs[r].sid)

\* the session stored under k, whether or not its time-to-live has run out
StoredSession(k) == The(sessions[k]).val
HasSession(k) == ~IsNull(sessions[k])

\* the store as request r found it
Pre(r) == The(reqs[r].pre)

\* request r, of the given kind, found a live session
Found(r, kind) == reqs[r].kind = kind /\ ~IsNull(reqs[r].found)
FoundSession(r) == The(reqs[r].found)

\* request r, of the given kind, found a live session and has answered
Answered(r, kind) == Found(r, kind) /\ reqs[r].pc = "done"

\* the values resolvedBy takes at a terminal transition of the turn controller
ClosingValues == {"HUMAN", "LIMIT", "TIME_LIMIT"}

----------------------------------------------------------------------------
(* C1: resolvedBy changes at most once in the life of a session: once a   *)
(* speech event has found it holding the value of a terminal transition   *)
(* (HUMAN, LIMIT, TIME_LIMIT), the event leaves it at that value.  The    *)
(* value a session is created with counts as the unset one.               *)
C1_ResolvedBySetOnce ==
    \A r \in Slots :
        (Answered(r, "speech") /\ FoundSession(r).resolvedBy \in ClosingValues)
            => StoredSession(KeyOf(r)).resolvedBy = FoundSession(r).resolvedBy

(* C2: a speech event that finds the session closed (resolvedBy is the    *)
(* value of a terminal transition) appends no turn: the stored turns are  *)
(* the same after the event as before it.                                 *)
C2_ClosedSessionTakesNoTurn ==
    \A r \in Slots :
        (Answered(r, "speech") /\ FoundSession(r).resolvedBy \in ClosingValues)
            => StoredSession(KeyOf(r)).messages = FoundSession(r).messages

\* an initiation event has stored its session
Initiated(r) == reqs[r].kind = "incoming" /\ reqs[r].pc \in {"welcome", "done"}

C4_OneSystemTurnFirst ==
    \A k \in Keys :
        HasSession(k) =>
            LET m == StoredSession(k).messages
            IN  /\ Len(m) >= 1
                /\ \A i \in 1..Len(m) : (m[i].role = "system") <=> (i = 1)

C4_Witness ==
    \E k \in Keys :
        /\ HasSession(k)
        /\ Len(StoredSession(k).messages) >= 4
        /\ \E i \in 1..Len(StoredSession(k).messages) :
              StoredSession(k).messages[i].role = "assistant"

(* C5: once the classifier has set intent to a non-null value, no later   *)
(* speech event changes it.                                               *)
C5_IntentSetOnce ==
    \A r \in Slots :
        (Answered(r, "speech") /\ FoundSession(r).intent # Null)
            => StoredSession(KeyOf(r)).intent = FoundSession(r).intent

C5_Witness ==
    \E r \in Slots :
        /\ Answered(r, "speech") /\ FoundSession(r).intent = Some("")
        /\ StoredSession(KeyOf(r)).intent = Some("sales")

\* the user/assistant pairs a session holds after its system turn
PairsHeld(session) ==
    Cardinality({i \in 2..Len(session.messages) :
        /\ session.messages[i].role = "assistant"
        /\ session.messages[i - 1].role = "user"})

\* what request r leaves under its key when it saves session s at its arrival
Persisted(r, s) ==
    sessions[KeyOf(r)] =
        Some([val |-> s, expireAt |-> reqs[r].t0 + SessionTtlSec * MsPerSec])

(* C6: with a maximum of N turns, a speech event on a session that holds  *)
(* N user/assistant pairs sets resolvedBy = LIMIT, persists the session,  *)
(* calls no language model, appends no turn and answers 'maximum length'; *)
(* a speech event on a session that holds fewer than N pairs is not       *)
(* stopped by the turn budget.                                            *)
C6_TurnBudget ==
    \A r \in Slots :
        Answered(r, "speech") =>
            LET f == FoundSession(r)
            IN  /\ PairsHeld(f) >= maxCallTurns =>
                    /\ Persisted(r, [f EXCEPT !.resolvedBy = "LIMIT"])
                    /\ reqs[r].lmCalls = 0
                    /\ The(reqs[r].resp) = SayAndEnd("maximum length")
                /\ PairsHeld(f) < maxCallTurns =>
                    The(reqs[r].resp) # SayAndEnd("maximum length")

\* the first half of C6 alone
C6_FullBudgetStops ==
    \A r \in Slots :
        (Answered(r, "speech") /\ PairsHeld(FoundSession(r)) >= maxCallTurns) =>
            /\ Persisted(r, [FoundSession(r) EXCEPT !.resolvedBy = "LIMIT"])
            /\ reqs[r].lmCalls = 0
            /\ The(reqs[r].resp) = SayAndEnd("maximum length")

\* the turn-budget test of the handler does not stop the session
WithinTurnBudget(session) == Len(session.messages) <= 2 * maxCallTurns

\* milliseconds request r found its session to have lasted
Elapsed(r) == reqs[r].t0 - FoundSession(r).startTime

(* C7: with a maximum of D seconds, a speech event handled more than D    *)
(* seconds after startTime, on a session within its turn budget, sets     *)
(* resolvedBy = TIME_LIMIT, persists, appends no turn, calls no language  *)
(* model and answers 'timed out'; one handled D seconds after startTime   *)
(* or earlier is not stopped by the time budget.                          *)
C7_TimeBudget ==
    \A r \in Slots :
        (Answered(r, "speech") /\ WithinTurnBudget(FoundSession(r))) =>
            LET f == FoundSession(r)
            IN  /\ Elapsed(r) > MaxCallDurationSec * MsPerSec =>
                    /\ Persisted(r, [f EXCEPT !.resolvedBy = "TIME_LIMIT"])
                    /\ reqs[r].lmCalls = 0
                    /\ The(reqs[r].resp) = SayAndEnd("timed out")
                /\ Elapsed(r) <= MaxCallDurationSec * MsPerSec =>
                    /\ The(reqs[r].resp) # SayAndEnd("timed out")
                    /\ StoredSession(KeyOf(r)).resolvedBy = "TIME_LIMIT"
                          => f.resolvedBy = "TIME_LIMIT"

C7_Witness ==
    \E r \in Slots :
        /\ Answered(r, "speech") /\ WithinTurnBudget(FoundSession(r))
        /\ Elapsed(r) = MaxCallDurationSec * MsPerSec + 1
        /\ The(reqs[r].resp) = SayAndEnd("timed out")
        /\ Len(FoundSession(r).messages) > 1

\* C7, the other side: a speech event exactly D seconds after startTime goes on
C7_WitnessAtLimit ==
    \E r \in Slots :
        /\ Answered(r, "speech") /\ WithinTurnBudget(FoundSession(r))
        /\ Elapsed(r) = MaxCallDurationSec * MsPerSec
        /\ The(reqs[r].resp).type = "PlayThenGather"

\* the utterances that name a human, an agent, a person or an operator
AsksForHuman == {"A HUMAN", "Operator"}

\* the tenants whose configuration enables the transfer
TransferEnabled == {"t1"}

(* C8: a speech event within both budgets transfers to a human            *)
(* (resolvedBy = HUMAN, the answer dials the tenant's agent, no intent is *)
(* classified and no reply generated) exactly when the tenant enables the *)
(* transfer and the utterance, in any case, contains a keyword; with the  *)
(* transfer disabled the event does not set resolvedBy = HUMAN.           *)
C8_HumanTransfer ==
    \A r \in Slots :
        (/\ Answered(r, "speech")
         /\ WithinTurnBudget(FoundSession(r))
         /\ Elapsed(r) <= MaxCallDurationSec * MsPerSec) =>
            LET f == FoundSession(r)
                s == StoredSession(KeyOf(r))
                agent == IF reqs[r].tid = "t2" THEN "+222" ELSE "HUMAN_AGENT_NUMBER"
            IN  IF reqs[r].tid \in TransferEnabled /\ reqs[r].speech \in AsksForHuman
                THEN /\ s.resolvedBy = "HUMAN"
                     /\ The(reqs[r].resp) = TransferToHuman(agent)
                     /\ reqs[r].lmCalls = 0
                     /\ s.intent = f.intent
                ELSE /\ The(reqs[r].resp).type # "TransferToHuman"
                     /\ s.resolvedBy = f.resolvedBy

C8_Witness ==
    \E r \in Slots :
        /\ Answered(r, "speech") /\ reqs[r].tid = "t1"
        /\ reqs[r].speech = "A HUMAN"
        /\ FoundSession(r).resolvedBy = "AI"
        /\ The(reqs[r].resp).type = "TransferToHuman"

\* C8, the other side: a keyword with the transfer disabled gets a reply
C8_WitnessDisabled ==
    \E r \in Slots :
        /\ Answered(r, "speech") /\ reqs[r].tid = "t2"
        /\ reqs[r].speech = "Operator"
        /\ The(reqs[r].resp).type = "PlayThenGather"

(* C9: a finalization that runs after a completed finalization of the     *)
(* same key, with no initiation in between, is a no-op: it changes no     *)
(* counter, writes no CallLog and answers with success.                   *)
C9_SecondFinalizeNoOp ==
    \A r \in Slots :
        (reqs[r].kind = "ended" /\ KeyOf(r) \in Pre(r).finalized) =>
            /\ reqs[r].pc = "done"
            /\ reqs[r].resp = Some(AckOnly)
            /\ analytics = Pre(r).analytics
            /\ logs = Pre(r).logs
            /\ sessions = Pre(r).sessions

C9_Witness ==
    \E r \in Slots :
        /\ reqs[r].kind = "ended" /\ reqs[r].pc = "done"
        /\ KeyOf(r) \in Pre(r).finalized
        /\ analytics[analyticsKey(reqs[r].tid, reqs[r].t0)]["total_calls"] = 1

\* the counters of c, with the field f of the hash a one higher
Incremented(c, a, f) == [c EXCEPT ![a][f] = @ + 1]

(* C10: a termination event for an existing session writes a CallLog      *)
(* under its key that carries the session and its current resolvedBy,     *)
(* adds exactly 1 to a daily total_calls of the tenant and exactly 1 to a *)
(* daily resolved_<resolvedBy> of the tenant, changes no other counter,   *)
(* and leaves no live session under the key.                              *)
C10_Finalize ==
    \A r \in Slots :
        Answered(r, "ended") =>
            LET f == FoundSession(r)
                log == The(logs[LogKeyOf(r)])
            IN  /\ ~IsNull(logs[LogKeyOf(r)])
                /\ log.session = f
                /\ log.session.resolvedBy = Pre(r).sessions[KeyOf(r)][1].val.resolvedBy
                /\ log.endedAt = reqs[r].t0
                /\ log.durationSec * MsPerSec <= Elapsed(r)
                /\ Elapsed(r) < (log.durationSec + 1) * MsPerSec
                /\ \E d1 \in TimePoints, d2 \in TimePoints :
                      analytics =
                          Incremented(
                              Incremented(Pre(r).analytics,
                                          analyticsKey(reqs[r].tid, d1),
                                          "total_calls"),
                              analyticsKey(reqs[r].tid, d2),
                              IF f.resolvedBy = "AI" THEN "resolved_AI"
                              ELSE IF f.resolvedBy = "HUMAN" THEN "resolved_HUMAN"
                              ELSE IF f.resolvedBy = "LIMIT" THEN "resolved_LIMIT"
                              ELSE "resolved_TIME_LIMIT")
                /\ ~HasSession(KeyOf(r))
                /\ IsNull(redisGet(KeyOf(r)))

C10_Witness ==
    \E r \in Slots :
        /\ Answered(r, "ended")
        /\ FoundSession(r).resolvedBy = "HUMAN"
        /\ analytics[analyticsKey(reqs[r].tid, reqs[r].t0)]["resolved_HUMAN"] = 1
        /\ Elapsed(r) > 0

----------------------------------------------------------------------------
\* the tenant a stored session, and a stored log, belong to
SessionsOf(tid, ss) ==
    {k \in DOMAIN ss : ~IsNull(ss[k]) /\ The(ss[k]).val.tenantId = tid}
LogsOf(tid, ls) ==
    {k \in DOMAIN ls : ~IsNull(ls[k]) /\ The(ls[k]).session.tenantId = tid}

\* the daily counters of each tenant, by their keys
CountersOf(tid) ==
    IF tid = "t1"
    THEN {"tenant:t1:analytics:daily:1970-01-01",
          "tenant:t1:analytics:daily:1970-01-02"}
    ELSE {"tenant:t2:analytics:daily:1970-01-01",
          "tenant:t2:analytics:daily:1970-01-02"}

(* C11: tenants T1 and T2 use the same call identifier: an initiation,    *)
(* speech or termination event addressed to T1 leaves the live session,   *)
(* the CallLog and the counters of T2 as they were.                       *)
C11_TenantIsolation ==
    \A r \in Slots, t2 \in Tenants :
        (reqs[r].kind # "none" /\ reqs[r].tid # t2) =>
            /\ SessionsOf(t2, sessions) = SessionsOf(t2, Pre(r).sessions)
            /\ \A k \in SessionsOf(t2, sessions) : sessions[k] = Pre(r).sessions[k]
            /\ LogsOf(t2, logs) = LogsOf(t2, Pre(r).logs)
            /\ \A k \in LogsOf(t2, logs) : logs[k] = Pre(r).logs[k]
            /\ \A a \in CountersOf(t2) \cap DOMAIN analytics :
                  analytics[a] = Pre(r).analytics[a]

C11_Witness ==
    \E r \in Slots :
        /\ reqs[r].kind = "ended" /\ reqs[r].pc = "done"
        /\ reqs[r].tid = "t1" /\ reqs[r].sid = "c1"
        /\ ~IsNull(reqs[r].found)
        /\ \E k \in SessionsOf("t2", sessions) :
              /\ The(sessions[k]).val.callSid = "c1"
              /\ Len(The(sessions[k]).val.messages) > 1

\* request r arrived when the store held no live session under its key
NoLiveSession(r) ==
    LET e == Pre(r).sessions[KeyOf(r)]
    IN  IsNull(e) \/ reqs[r].t0 >= The(e).expireAt

(* C12: a speech or termination event for a key with no live session     *)
(* (never created, expired or finalized) is a successful no-op: it writes *)
(* nothing to the store, calls no provider and is acknowledged.           *)
C12_NoSessionNoOp ==
    \A r \in Slots :
        (reqs[r].kind \in {"speech", "ended"} /\ NoLiveSession(r)) =>
            /\ reqs[r].pc = "done"
            /\ reqs[r].resp = Some(AckOnly)
            /\ reqs[r].lmCalls = 0
            /\ sessions = Pre(r).sessions
            /\ logs = Pre(r).logs
            /\ analytics = Pre(r).analytics

C12_Witness ==
    \E r \in Slots :
        /\ reqs[r].kind = "speech" /\ reqs[r].pc = "done"
        /\ HasSession(KeyOf(r))
        /\ reqs[r].t0 >= The(sessions[KeyOf(r)]).expireAt

----------------------------------------------------------------------------
\* the awaits of /process-speech on a provider: the two language-model calls
\* and the speech synthesis
ProviderSteps == {"classify", "reply", "speak"}

\* a provider call of speech event r failed: it rejected, or the speech
\* endpoint refused
ProviderFailed(r) ==
    reqs[r].kind = "speech" /\ reqs[r].failed \in ProviderSteps

\* the caller is told of the failure: any answer but the one of a turn that
\* went well
Degraded(resp) == ~IsNull(resp) /\ The(resp).type # "PlayThenGather"

(* C13: when a provider call (intent classification, reply generation or  *)
(* speech synthesis) fails during a speech event, either the stored       *)
(* session is what it was before the event, or the caller gets a degraded *)
(* response.                                                              *)
C13_ProviderFailure ==
    \A r \in Slots :
        ProviderFailed(r) =>
            \/ sessions[KeyOf(r)] = Pre(r).sessions[KeyOf(r)]
            \/ Degraded(reqs[r].resp)

\* a language-model failure leaves the stored session as it was
C13_ModelFailureKeepsSession ==
    \A r \in Slots :
        (reqs[r].kind = "speech" /\ reqs[r].failed \in {"classify", "reply"})
            => sessions[KeyOf(r)] = Pre(r).sessions[KeyOf(r)]

\* an answer the call-control layer can act on
WellFormed(resp) == ~IsNull(resp) /\ The(resp) # ServerError

(* C14: every webhook invocation returns a well-formed response, also on  *)
(* the paths where a provider call or a store operation fails: an         *)
(* invocation that has stopped has answered.                              *)
C14_AlwaysAnswers ==
    \A r \in Slots :
        reqs[r].pc \in {"done", "failed"} => WellFormed(reqs[r].resp)

\* the payload of request r lacks the call or the tenant identifier
Malformed(r) ==
    reqs[r].kind # "none" /\ (reqs[r].tid = Missing \/ reqs[r].sid = Missing)

(* C15: an initiation, speech or termination event whose payload lacks    *)
(* the call identifier or the tenant identifier changes nothing in the    *)
(* store (no session, no CallLog, no counter) and is answered with the    *)
(* bare acknowledgement.                                                  *)
C15_MalformedRejected ==
    \A r \in Slots :
        Malformed(r) =>
            /\ sessions = Pre(r).sessions
            /\ logs = Pre(r).logs
            /\ analytics = Pre(r).analytics
            /\ reqs[r].pc = "done" => reqs[r].resp = Some(AckOnly)

\* the steps of a finalization before the deletion of the session
FinalizeSteps == {"log", "total", "resolved"}

(* C16: when the CallLog write or one of the two counter increments of a  *)
(* finalization fails, the session record is deleted all the same and the *)
(* caller gets the success acknowledgement.                               *)
C16_BestEffortFinalize ==
    \A r \in Slots :
        (reqs[r].kind = "ended" /\ reqs[r].failed \in FinalizeSteps) =>
            /\ IsNull(sessions[KeyOf(r)])
            /\ reqs[r].resp = Some(AckOnly)

----------------------------------------------------------------------------
IsPrefix(a, b) == Len(a) <= Len(b) /\ SubSeq(b, 1, Len(a)) = a

\* an initiation event stores its session in this step
InitiationStores ==
    \E r \in Slots :
        reqs[r].kind = "incoming" /\ reqs[r].pc = "set" /\ reqs'[r].pc = "welcome"

(* C17: the turns of a session are append-only: a write that replaces a   *)
(* stored session, other than the write of an initiation event, stores    *)
(* turns that extend the turns stored before it, under any interleaving   *)
(* of concurrent speech events.                                           *)
C17_TurnsAppendOnly ==
    [][\A k \in Keys :
          (HasSession(k) /\ HasSession(k)' /\ ~InitiationStores) =>
              IsPrefix(StoredSession(k).messages, StoredSession(k)'.messages)]_vars

\* the tenant's total_calls, over the days
TotalCalls(tid, an) ==
    an[analyticsKey(tid, Midnight - 1)].total_calls
        + an[analyticsKey(tid, Midnight)].total_calls

\* two termination events in flight together found the same live session
SameCallEnded(r1, r2) ==
    /\ r1 # r2
    /\ Found(r1, "ended") /\ Found(r2, "ended")
    /\ KeyOf(r1) = KeyOf(r2)
    /\ FoundSession(r1) = FoundSession(r2)

(* C18: when two termination events for the same call are processed      *)
(* concurrently, the tenant's total_calls is incremented once for the     *)
(* call: after both have answered it is one more than when the first      *)
(* arrived.                                                               *)
C18_DuplicateEndCountsOnce ==
    \A r1 \in Slots, r2 \in Slots :
        (SameCallEnded(r1, r2) /\ reqs[r1].pc = "done" /\ reqs[r2].pc = "done")
            => TotalCalls(reqs[r1].tid, analytics)
                   <= TotalCalls(reqs[r1].tid, Pre(r1).analytics) + 1

(* C19: once a termination event for a key has completed, no live session *)
(* exists under the key until a new initiation event for it arrives, also *)
(* when a speech event for the call was in flight during the termination: *)
(* no step but the store of an initiation event brings a session back     *)
(* under a key whose termination has completed.                           *)
C19_NoSessionAfterEnd ==
    [][\A k \in finalized :
          (IsNull(redisGet(k)) /\ ~InitiationStores) => IsNull(redisGet(k))']_vars

\* a termination event is between its first and its last store call
TerminationInFlight ==
    \E r \in Slots : reqs[r].kind = "ended" /\ ~Free(r)

ResolvedCalls(counters) ==
    counters.resolved_AI + counters.resolved_HUMAN
        + counters.resolved_LIMIT + counters.resolved_TIME_LIMIT

(* C20: whenever no termination event is in flight, on every day of every *)
(* tenant total_calls is the sum of the day's resolved_<outcome>          *)
(* counters, also when the day changes between the two increments of a    *)
(* finalization.                                                          *)
C20_TotalIsSumOfResolved ==
    ~TerminationInFlight =>
        \A a \in DOMAIN analytics :
            analytics[a].total_calls = ResolvedCalls(analytics[a])

====
